---- MODULE Spec2Model ----
(***************************************************************************)
(* A model of lit_annotator (src/lit_annotator/__main__.py): the chunker   *)
(* split_into_chunks, the footnote normalizer normalize_footnotes, the     *)
(* retry decorator and the orchestrator process_file.                      *)
(*                                                                         *)
(* Text handed to the chunker is a sequence of characters.  Text returned  *)
(* by the annotation service is a sequence of tokens: a footnote reference *)
(* "[^id]" not followed by ":", a footnote definition "[^id]:", or a run   *)
(* of other text; an identifier is the string of digits the patterns       *)
(* capture.                                                                *)
(***************************************************************************)
EXTENDS Integers, Sequences, FiniteSets, TLC

VARIABLES
    pc,                \* position of the running function
    input_text,        \* process_file: input_text / split_into_chunks: text
    chunk_size,        \* split_into_chunks: chunk_size (CHUNK_SIZE, the budget)
    chunks,            \* process_file: chunks / the chunker's return value
    genre,             \* process_file: genre
    guidance,          \* process_file: guidance
    idx,               \* process_file: i of the for loop (0-based)
    attempt,           \* retry.wrapper: attempt of the for loop (0-based)
    annotated,         \* process_file: annotated / normalize_footnotes: text
    start_number,      \* normalize_footnotes: start_number
    normalized,        \* process_file: normalized / the normalizer's text
    footnote_counter,  \* process_file: footnote_counter / returned counter
    annotated_chunks,  \* process_file: annotated_chunks
    output,            \* the file at output_path: <<>> (absent) or <<text>>
    error,             \* the exception that ended the run, "" if none
    genre_calls,       \* calls made to the genre classifier
    annot_calls,       \* calls made to the annotation service, per chunk
    norm_log,          \* the calls of normalize_footnotes: <<start, returned>>
    again,             \* normalize_footnotes called again on its own result
    response,          \* annotate_chunk_with_prompt: response (its content)
    fatal              \* what the message of the exception that ended the
                       \* run states: pairs <<field, value>>

vars == <<pc, input_text, chunk_size, chunks, genre, guidance, idx, attempt,
          annotated, start_number, normalized, footnote_counter,
          annotated_chunks, output, error, genre_calls, annot_calls, norm_log,
          again, response, fatal>>

----------------------------------------------------------------------------
(* Bounds of the model *)

\* longest text given to split_into_chunks on its own
MaxLen == 7
\* largest budget given to split_into_chunks on its own
MaxBudget == 2

----------------------------------------------------------------------------
(* Characters and strings *)

NL == "\n"
SP == " "
Alphabet == {"a", "b", SP, NL}

\* str.strip, str.split and the regex class \s: the whitespace characters
IsSpace(c) == c \in {SP, NL}

SeqMin(S) == CHOOSE x \in S : \A y \in S : x <= y
SeqMax(S) == CHOOSE x \in S : \A y \in S : x >= y

\* text.strip()
Strip(s) ==
    LET solid == {k \in 1..Len(s) : ~IsSpace(s[k])}
    IN  IF solid = {} THEN <<>> ELSE SubSeq(s, SeqMin(solid), SeqMax(solid))

\* The end of the match of \n\s*\n that starts at p, 0 if there is none:
\* \s* is greedy, so the match ends at the last newline of the whitespace
\* run that follows p.
MatchEnd(s, p) ==
    IF s[p] # NL THEN 0
    ELSE LET solid  == {k \in p..Len(s) : ~IsSpace(s[k])}
             runEnd == IF solid = {} THEN Len(s) ELSE SeqMin(solid) - 1
             ends   == {k \in (p+1)..runEnd : s[k] = NL}
         IN  IF ends = {} THEN 0 ELSE SeqMax(ends)

\* re.split(r'\n\s*\n', s): the pieces between the leftmost matches
RECURSIVE ReSplitFrom(_, _)
ReSplitFrom(s, start) ==
    LET starts == {p \in start..Len(s) : MatchEnd(s, p) # 0}
    IN  IF starts = {} THEN <<SubSeq(s, start, Len(s))>>
        ELSE LET p == SeqMin(starts)
             IN  <<SubSeq(s, start, p - 1)>> \o ReSplitFrom(s, MatchEnd(s, p) + 1)

ReSplit(s) == ReSplitFrom(s, 1)

\* len(para.split()): the number of maximal runs of non-whitespace
WordCount(s) ==
    Cardinality({k \in 1..Len(s) :
                    ~IsSpace(s[k]) /\ (k = 1 \/ IsSpace(s[k-1]))})

\* "\n\n".join(parts)
RECURSIVE Join(_)
Join(parts) ==
    IF parts = <<>> THEN <<>>
    ELSE IF Len(parts) = 1 THEN parts[1]
    ELSE parts[1] \o <<NL, NL>> \o Join(Tail(parts))

----------------------------------------------------------------------------
(* split_into_chunks *)

\* the state of the loop: chunks, current_chunk, current_length
ChunkStart == [chunks |-> <<>>, current_chunk |-> <<>>, current_length |-> 0]

\* ChunkStep that closes the chunk as soon as the paragraph would fill it
\* to the budget: >= for >
ChunkStepEarlyClose(para, size, st) ==
    LET words == WordCount(para)
        close == st.current_length + words >= size /\ st.current_chunk # <<>>
        s1    == IF close
                 THEN [chunks |-> Append(st.chunks, Join(st.current_chunk)),
                       current_chunk |-> <<>>, current_length |-> 0]
                 ELSE st
    IN  [chunks |-> s1.chunks,
         current_chunk |-> Append(s1.current_chunk, para),
         current_length |-> s1.current_length + words]

\* ChunkStep with the test made on the words already in the chunk alone,
\* the paragraph's own words forgotten
ChunkStepLateClose(para, size, st) ==
    LET words == WordCount(para)
        close == st.current_length > size /\ st.current_chunk # <<>>
        s1    == IF close
                 THEN [chunks |-> Append(st.chunks, Join(st.current_chunk)),
                       current_chunk |-> <<>>, current_length |-> 0]
                 ELSE st
    IN  [chunks |-> s1.chunks,
         current_chunk |-> Append(s1.current_chunk, para),
         current_length |-> s1.current_length + words]

\* the body of the for loop: close the current chunk if this paragraph
\* would overfill it and it is not empty, then add the paragraph
ChunkStep(para, size, st) ==
    LET words == WordCount(para)
        close == st.current_length + words > size /\ st.current_chunk # <<>>
        s1    == IF close
                 THEN [chunks |-> Append(st.chunks, Join(st.current_chunk)),
                       current_chunk |-> <<>>, current_length |-> 0]
                 ELSE st
    IN  [chunks |-> s1.chunks,
         current_chunk |-> Append(s1.current_chunk, para),
         current_length |-> s1.current_length + words]

\* ChunkFlush with the trailing chunk forgotten
ChunkNoFlush(st) == st.chunks

\* after the loop: if current_chunk: chunks.append(...)
ChunkFlush(st) ==
    IF st.current_chunk # <<>>
    THEN Append(st.chunks, Join(st.current_chunk))
    ELSE st.chunks

RECURSIVE ChunkLoop(_, _, _)
ChunkLoop(paragraphs, size, st) ==
    IF paragraphs = <<>> THEN ChunkFlush(st)
    ELSE ChunkLoop(Tail(paragraphs), size, ChunkStep(Head(paragraphs), size, st))

split_into_chunks(text, size) ==
    ChunkLoop(ReSplit(Strip(text)), size, ChunkStart)

----------------------------------------------------------------------------
(* Footnote markers *)

\* int(old_id): the value of a string of digits
RECURSIVE StrToInt(_)
StrToInt(d) ==
    IF d = <<>> THEN 0 ELSE 10 * StrToInt(SubSeq(d, 1, Len(d) - 1)) + d[Len(d)]

\* str(counter): the decimal digits of a natural number, no leading zero
RECURSIVE IntToStr(_)
IntToStr(n) ==
    IF n < 10 THEN <<n>> ELSE Append(IntToStr(n \div 10), n % 10)

Ref(id) == [k |-> "ref", id |-> id]
Def(id) == [k |-> "def", id |-> id]
Txt     == [k |-> "txt", id |-> <<>>]

\* REF_PATTERN.findall(text) and DEF_PATTERN.findall(text)
RECURSIVE FindAll(_, _)
FindAll(kind, text) ==
    IF text = <<>> THEN <<>>
    ELSE (IF Head(text).k = kind THEN <<Head(text).id>> ELSE <<>>)
         \o FindAll(kind, Tail(text))

REF_PATTERN(text) == FindAll("ref", text)
DEF_PATTERN(text) == FindAll("def", text)

Range(f) == {f[k] : k \in DOMAIN f}

\* SortedIds with the definitions forgotten: sorted(set(refs), key=int)
SortedIdsRefsOnly(text) ==
    LET ids == Range(REF_PATTERN(text))
        n   == Cardinality(ids)
    IN  {o \in [1..n -> ids] :
            /\ Range(o) = ids
            /\ \A a, b \in 1..n : a < b => StrToInt(o[a]) <= StrToInt(o[b])}

\* sorted(set(refs + defs), key=int): the distinct captured strings in
\* ascending numeric order.  The sort is stable and a set of strings is
\* iterated in hash order, so strings of equal value ("1", "01") come out
\* in either order.
SortedIds(text) ==
    LET ids == Range(REF_PATTERN(text) \o DEF_PATTERN(text))
        n   == Cardinality(ids)
    IN  {o \in [1..n -> ids] :
            /\ Range(o) = ids
            /\ \A a, b \in 1..n : a < b => StrToInt(o[a]) <= StrToInt(o[b])}

\* the first loop of normalize_footnotes: mapping[old_id] = str(counter),
\* as the list of the pairs <<old, new>> in insertion order
BuildMapping(order, start) ==
    [k \in 1..Len(order) |-> <<order[k], IntToStr(start + k - 1)>>]

\* re.sub of one pattern for one old identifier: every marker of that kind
\* that carries old now carries new
ReSub(kind, old, new, text) ==
    [k \in 1..Len(text) |->
        IF text[k].k = kind /\ text[k].id = old
        THEN [k |-> kind, id |-> new] ELSE text[k]]

\* RewriteLoop with the substitution of the definitions forgotten: only the
\* references are rewritten
RECURSIVE RewriteLoopRefsOnly(_, _)
RewriteLoopRefsOnly(mapping, text) ==
    IF mapping = <<>> THEN text
    ELSE LET old == Head(mapping)[1]
             new == Head(mapping)[2]
         IN  RewriteLoopRefsOnly(Tail(mapping), ReSub("ref", old, new, text))

\* the second loop of normalize_footnotes: for each pair of the mapping,
\* in insertion order, the definitions and then the references are
\* rewritten in the text the earlier pairs left
RECURSIVE RewriteLoop(_, _)
RewriteLoop(mapping, text) ==
    IF mapping = <<>> THEN text
    ELSE LET old == Head(mapping)[1]
             new == Head(mapping)[2]
         IN  RewriteLoop(Tail(mapping),
                         ReSub("ref", old, new, ReSub("def", old, new, text)))

\* normalize_footnotes with a conditional skip: a text whose identifiers
\* already start at the counter is taken for normalized and returned as it
\* is, with the counter it came with
NormalizeSkipsIfNormalized(text, start, order) ==
    LET mapping == BuildMapping(order, start)
    IN  IF order # <<>> /\ order[1] = IntToStr(start)
        THEN [text |-> text, counter |-> start]
        ELSE [text    |-> RewriteLoop(mapping, text),
              counter |-> start + Len(mapping)]

\* normalize_footnotes that takes an identifier for itself whatever the
\* text holds: the counter advances by at least one
NormalizeAdvancesAtLeastOne(text, start, order) ==
    LET mapping == BuildMapping(order, start)
    IN  [text    |-> RewriteLoop(mapping, text),
         counter |-> IF mapping = <<>> THEN start + 1 ELSE start + Len(mapping)]

\* normalize_footnotes(text, start_number), for one outcome of the sort
normalize_footnotes(text, start, order) ==
    LET mapping == BuildMapping(order, start)
    IN  [text    |-> RewriteLoop(mapping, text),
         counter |-> start + Len(mapping)]

----------------------------------------------------------------------------
(* Values of the locals before they are assigned *)

\* normalize_footnotes has not been called a second time
NotCalled == [text |-> <<>>, counter |-> 0]

\* no response has come from the annotation service
NoResponse == [got |-> FALSE, content |-> <<>>]

----------------------------------------------------------------------------
(* Genre detection and guidance *)

\* the replies of the genre classifier the model draws from: the text of
\* the reply holds "genre: <label>" (marker) or does not
GenreReplies ==
    {[marker |-> TRUE,  label |-> " Sci-Fi "],
     [marker |-> TRUE,  label |-> "poetry"],
     [marker |-> FALSE, label |-> ""]}

\* match.group(1).strip().lower() on the labels of GenreReplies
StripLower(label) ==
    IF label = " Sci-Fi " THEN "sci-fi" ELSE label

\* the last two lines of detect_genre_intro
ParseGenre(content) ==
    IF content.marker THEN StripLower(content.label) ELSE "other"

guidance_map ==
    [g \in {"literary fiction", "sci-fi", "fantasy", "philosophy", "biography",
            "thriller", "romance", "academic writing", "self-help",
            "children's book", "other"} |->
        CASE g = "literary fiction" -> "Focus on subtle emotional tone"
          [] g = "sci-fi"           -> "Explain technical or futuristic terms"
          [] g = "fantasy"          -> "Clarify mythical elements"
          [] g = "philosophy"       -> "Emphasise logical structure"
          [] g = "biography"        -> "Focus on historical references"
          [] g = "thriller"         -> "Clarify idiomatic suspense language"
          [] g = "romance"          -> "Highlight emotional tone"
          [] g = "academic writing" -> "Explain formal constructions"
          [] g = "self-help"        -> "Clarify abstract motivational language"
          [] g = "children's book"  -> "Add only minimal annotation"
          [] OTHER                  -> "Annotate as usual"]

\* guidance_map.get(genre, guidance_map["other"])
get_genre_guidance(g) ==
    IF g \in DOMAIN guidance_map THEN guidance_map[g] ELSE guidance_map["other"]

----------------------------------------------------------------------------
(* Program constants *)

\* retry(max_attempts=3, ...)
max_attempts == 3

----------------------------------------------------------------------------
(* Inputs of process_file *)

\* the documents process_file is run on: empty, blank, and documents of
\* two paragraphs, which are one or two chunks according to the budget
DocPool ==
    {<<>>,
     <<SP, NL>>,
     <<"a", SP, "b", NL, NL, "b">>,
     <<"a", NL, SP, NL, "b">>}

\* the markers the annotation service's replies are made of
AnnTokens == {Ref(<<1>>), Def(<<1>>), Ref(<<2>>)}

\* longest reply of the annotation service, in tokens
MaxAnn == 2

\* the non-empty replies of the annotation service
AnnPool == UNION {[1..n -> AnnTokens] : n \in 1..MaxAnn}

\* the text between two chunks of the output
Sep == [k |-> "sep", id |-> <<>>]

\* "\n\n".join(annotated_chunks)
RECURSIVE JoinChunks(_)
JoinChunks(parts) ==
    IF parts = <<>> THEN <<>>
    ELSE IF Len(parts) = 1 THEN parts[1]
    ELSE parts[1] \o <<Sep>> \o JoinChunks(Tail(parts))

\* a file that may already be at output_path
OldFile == <<Txt>>

----------------------------------------------------------------------------
(* process_file *)

Init ==
    /\ pc = "Init"
    /\ input_text \in DocPool
    /\ chunk_size \in 1..MaxBudget
    /\ chunks = <<>>
    /\ genre = ""
    /\ guidance = ""
    /\ idx = 0
    /\ attempt = 0
    /\ annotated = <<>>
    /\ start_number = 0
    /\ normalized = <<>>
    /\ footnote_counter = 0
    /\ annotated_chunks = <<>>
    /\ output \in {<<>>, <<OldFile>>}
    /\ error = ""
    /\ genre_calls = 0
    /\ annot_calls = <<>>
    /\ norm_log = <<>>
    /\ again = NotCalled
    /\ response = NoResponse
    /\ fatal = {}

\* split_into_chunks over the documents and budgets of the run, evaluated
\* once: the call at process_file's first step reads its result here.
SplitOf ==
    [d \in DocPool, b \in 1..MaxBudget |-> split_into_chunks(d, b)]

\* chunks = split_into_chunks(input_text)
SplitInput ==
    /\ pc = "Init"
    /\ LET cs == SplitOf[input_text, chunk_size]
       IN  /\ chunks' = cs
           /\ annot_calls' = [k \in 1..Len(cs) |-> 0]
    /\ pc' = "DetectGenre"
    /\ UNCHANGED <<again, response, fatal,
                   input_text, chunk_size, genre, guidance, idx, attempt,
                   annotated, start_number, normalized, footnote_counter,
                   annotated_chunks, output, error, genre_calls, norm_log>>

\* genre = detect_genre_intro(input_text): the classifier replies
DetectGenre ==
    /\ pc = "DetectGenre"
    /\ genre_calls' = genre_calls + 1
    /\ \E content \in GenreReplies : genre' = ParseGenre(content)
    /\ pc' = "ResolveGuidance"
    /\ UNCHANGED <<again, response, fatal,
                   input_text, chunk_size, chunks, guidance, idx, attempt,
                   annotated, start_number, normalized, footnote_counter,
                   annotated_chunks, output, error, annot_calls, norm_log>>

\* genre = detect_genre_intro(input_text): the call raises (a transport
\* error, no choices, no content); nothing in process_file catches it
DetectGenreRaises ==
    /\ pc = "DetectGenre"
    /\ genre_calls' = genre_calls + 1
    /\ error' = "classifier error"
    /\ pc' = "Failed"
    /\ UNCHANGED <<again, response, fatal,
                   input_text, chunk_size, chunks, genre, guidance, idx,
                   attempt, annotated, start_number, normalized,
                   footnote_counter, annotated_chunks, output, annot_calls,
                   norm_log>>

\* guidance = get_genre_guidance(genre); annotated_chunks = [];
\* footnote_counter = 1; the for loop starts
ResolveGuidance ==
    /\ pc = "ResolveGuidance"
    /\ guidance' = get_genre_guidance(genre)
    /\ annotated_chunks' = <<>>
    /\ footnote_counter' = 1
    /\ idx' = 0
    /\ pc' = "Loop"
    /\ UNCHANGED <<again, response, fatal,
                   input_text, chunk_size, chunks, genre, attempt, annotated,
                   start_number, normalized, output, error, genre_calls,
                   annot_calls, norm_log>>

\* for i, chunk in enumerate(chunks): the next chunk, retry's loop starts
NextChunk ==
    /\ pc = "Loop"
    /\ idx < Len(chunks)
    /\ attempt' = 0
    /\ pc' = "Annotate"
    /\ UNCHANGED <<again, response, fatal,
                   input_text, chunk_size, chunks, genre, guidance, idx,
                   annotated, start_number, normalized, footnote_counter,
                   annotated_chunks, output, error, genre_calls, annot_calls,
                   norm_log>>

\* MayAttempt off by one: range(max_attempts + 1)
MayAttemptOffByOne == attempt <= max_attempts

\* for attempt in range(max_attempts): there is an attempt left
MayAttempt == attempt < max_attempts

\* CallAnnotation with a request for the chunk after this one sent along
\* (the fetch stage run ahead of the normalization)
CallAnnotationAhead ==
    annot_calls' = [k \in DOMAIN annot_calls |->
                       IF k \in {idx + 1, idx + 2}
                       THEN annot_calls[k] + 1 ELSE annot_calls[k]]

\* func(*args, **kwargs): a request goes to the annotation service
CallAnnotation == annot_calls' = [annot_calls EXCEPT ![idx + 1] = @ + 1]

\* an attempt of annotate_chunk_with_prompt raises in the call of the
\* service; retry's wrapper catches it, sleeps and goes on
AnnotateRaises ==
    /\ pc = "Annotate"
    /\ MayAttempt
    /\ CallAnnotation
    /\ attempt' = attempt + 1
    /\ response' = NoResponse
    /\ UNCHANGED <<again, fatal,
                   pc, input_text, chunk_size, chunks, genre, guidance, idx,
                   annotated, start_number, normalized, footnote_counter,
                   annotated_chunks, output, error, genre_calls, norm_log>>

\* AnnotateEmpty without the test of line 164: the empty content is
\* returned as the chunk's annotated text
AnnotateEmptyReturned ==
    /\ pc = "Annotate"
    /\ MayAttempt
    /\ CallAnnotation
    /\ response' = [got |-> TRUE, content |-> <<>>]
    /\ annotated' = <<>>
    /\ pc' = "Normalize"
    /\ UNCHANGED <<again, fatal,
                   input_text, chunk_size, chunks, genre, guidance, idx,
                   attempt, start_number, normalized, footnote_counter,
                   annotated_chunks, output, error, genre_calls, norm_log>>

\* an attempt gets a response with no choices or no content:
\* annotate_chunk_with_prompt raises RuntimeError, caught like any other
AnnotateEmpty ==
    /\ pc = "Annotate"
    /\ MayAttempt
    /\ CallAnnotation
    /\ attempt' = attempt + 1
    /\ response' = [got |-> TRUE, content |-> <<>>]
    /\ UNCHANGED <<again, fatal,
                   pc, input_text, chunk_size, chunks, genre, guidance, idx,
                   annotated, start_number, normalized, footnote_counter,
                   annotated_chunks, output, error, genre_calls, norm_log>>

\* an attempt returns the content of the response
AnnotateReturns ==
    /\ pc = "Annotate"
    /\ MayAttempt
    /\ CallAnnotation
    /\ \E content \in AnnPool :
          /\ response' = [got |-> TRUE, content |-> content]
          /\ annotated' = content
    /\ pc' = "Normalize"
    /\ UNCHANGED <<again, fatal,
                   input_text, chunk_size, chunks, genre, guidance, idx,
                   attempt, start_number, normalized, footnote_counter,
                   annotated_chunks, output, error, genre_calls, norm_log>>

\* RetryExhausted that starts the attempts of the chunk over instead of
\* raising (here at most once more, to keep the counters finite)
RetryStartsOver ==
    /\ pc = "Annotate"
    /\ ~MayAttempt
    /\ annot_calls[idx + 1] < 2 * max_attempts
    /\ attempt' = 0
    /\ UNCHANGED <<again, response, fatal,
                   pc, input_text, chunk_size, chunks, genre, guidance, idx,
                   annotated, start_number, normalized, footnote_counter,
                   annotated_chunks, output, error, genre_calls, annot_calls,
                   norm_log>>

\* RetryExhausted as skip-and-continue: the chunk is dropped and the loop
\* of process_file goes on
RetrySkipsChunk ==
    /\ pc = "Annotate"
    /\ attempt >= max_attempts
    /\ idx' = idx + 1
    /\ pc' = "Loop"
    /\ UNCHANGED <<again, response, fatal,
                   input_text, chunk_size, chunks, genre, guidance, attempt,
                   annotated, start_number, normalized, footnote_counter,
                   annotated_chunks, output, error, genre_calls, annot_calls,
                   norm_log>>

\* retry's for loop is over: raise RuntimeError("Failed after 3 attempts"),
\* which ends process_file; the message states the number of attempts
RetryExhausted ==
    /\ pc = "Annotate"
    /\ ~MayAttempt
    /\ error' = "Failed after max_attempts attempts"
    /\ pc' = "Failed"
    /\ fatal' = {<<"attempts", max_attempts>>}
    /\ UNCHANGED <<again, response,
                   input_text, chunk_size, chunks, genre, guidance, idx,
                   attempt, annotated, start_number, normalized,
                   footnote_counter, annotated_chunks, output, genre_calls,
                   annot_calls, norm_log>>

\* Normalize with incremental persistence: the chunks normalized so far
\* are written to output_path after each chunk
NormalizeAndWrite ==
    /\ pc = "Normalize"
    /\ \E order \in SortedIds(annotated) :
          LET r == normalize_footnotes(annotated, footnote_counter, order)
          IN  /\ normalized' = r.text
              /\ footnote_counter' = r.counter
              /\ annotated_chunks' = Append(annotated_chunks, r.text)
              /\ norm_log' = Append(norm_log,
                    [chunk |-> idx + 1, start |-> footnote_counter,
                     returned |-> r.counter])
    /\ output' = <<JoinChunks(annotated_chunks')>>
    /\ start_number' = footnote_counter
    /\ idx' = idx + 1
    /\ pc' = "Loop"
    /\ UNCHANGED <<again, response, fatal,
                   input_text, chunk_size, chunks, genre, guidance, attempt,
                   annotated, error, genre_calls, annot_calls>>

\* Normalize without the threading: normalize_footnotes(annotated), which
\* starts every chunk at the default start_number 1
NormalizeFromOne ==
    /\ pc = "Normalize"
    /\ \E order \in SortedIds(annotated) :
          LET r == normalize_footnotes(annotated, 1, order)
          IN  /\ normalized' = r.text
              /\ footnote_counter' = r.counter
              /\ annotated_chunks' = Append(annotated_chunks, r.text)
              /\ norm_log' = Append(norm_log,
                    [chunk |-> idx + 1, start |-> 1, returned |-> r.counter])
    /\ start_number' = 1
    /\ idx' = idx + 1
    /\ pc' = "Loop"
    /\ UNCHANGED <<again, response, fatal,
                   input_text, chunk_size, chunks, genre, guidance, attempt,
                   annotated, output, error, genre_calls, annot_calls>>

\* normalized, footnote_counter = normalize_footnotes(annotated,
\* footnote_counter); annotated_chunks.append(normalized)
Normalize ==
    /\ pc = "Normalize"
    /\ \E order \in SortedIds(annotated) :
          LET r == normalize_footnotes(annotated, footnote_counter, order)
          IN  /\ normalized' = r.text
              /\ footnote_counter' = r.counter
              /\ annotated_chunks' = Append(annotated_chunks, r.text)
              /\ norm_log' = Append(norm_log,
                    [chunk |-> idx + 1, start |-> footnote_counter,
                     returned |-> r.counter])
    /\ start_number' = footnote_counter
    /\ idx' = idx + 1
    /\ pc' = "Loop"
    /\ UNCHANGED <<again, response, fatal,
                   input_text, chunk_size, chunks, genre, guidance, attempt,
                   annotated, output, error, genre_calls, annot_calls>>

\* output_path.write_text("\n\n".join(annotated_chunks))
Assemble ==
    /\ pc = "Loop"
    /\ idx = Len(chunks)
    /\ output' = <<JoinChunks(annotated_chunks)>>
    /\ pc' = "Done"
    /\ UNCHANGED <<again, response, fatal,
                   input_text, chunk_size, chunks, genre, guidance, idx,
                   attempt, annotated, start_number, normalized,
                   footnote_counter, annotated_chunks, error, genre_calls,
                   annot_calls, norm_log>>

Next ==
    \/ SplitInput
    \/ DetectGenre
    \/ DetectGenreRaises
    \/ ResolveGuidance
    \/ NextChunk
    \/ AnnotateRaises
    \/ AnnotateEmpty
    \/ AnnotateReturns
    \/ RetryExhausted
    \/ Normalize
    \/ Assemble

Spec == Init /\ [][Next]_vars

\* process_file when every external call returns, with a result or an
\* error: the program is sequential and then takes its next step
SpecFair == Spec /\ WF_vars(Next)

----------------------------------------------------------------------------
(* split_into_chunks on its own: every text of at most MaxLen characters,  *)
(* every budget up to MaxBudget                                            *)

Texts == UNION {[1..n -> Alphabet] : n \in 0..MaxLen}

InitChunk ==
    /\ pc = "call"
    /\ input_text \in Texts
    /\ chunk_size \in 0..MaxBudget
    /\ chunks = <<>>
    /\ genre = ""
    /\ guidance = ""
    /\ idx = 0
    /\ attempt = 0
    /\ annotated = <<>>
    /\ start_number = 0
    /\ normalized = <<>>
    /\ footnote_counter = 0
    /\ annotated_chunks = <<>>
    /\ output = <<>>
    /\ error = ""
    /\ genre_calls = 0
    /\ annot_calls = <<>>
    /\ norm_log = <<>>
    /\ again = NotCalled
    /\ response = NoResponse
    /\ fatal = {}

\* chunks = split_into_chunks(text, chunk_size)
ChunkerReturns ==
    /\ pc = "call"
    /\ chunks' = split_into_chunks(input_text, chunk_size)
    /\ pc' = "return"
    /\ UNCHANGED <<again, response, fatal,
                   input_text, chunk_size, genre, guidance, idx, attempt,
                   annotated, start_number, normalized, footnote_counter,
                   annotated_chunks, output, error, genre_calls, annot_calls,
                   norm_log>>

NextChunker == ChunkerReturns

SpecChunk == InitChunk /\ [][NextChunker]_vars

----------------------------------------------------------------------------
(* normalize_footnotes on its own: every text of at most MaxTokens tokens, *)
(* every starting counter of StartPool                                     *)

\* longest text given to normalize_footnotes on its own, in tokens
MaxTokens == 3
\* largest small starting counter
MaxStart == 3

\* the identifiers the texts carry
IdPool == {<<1>>, <<2>>, <<3>>, <<0, 1>>, <<1, 0>>}

NormTokens == {Ref(id) : id \in IdPool} \cup {Def(id) : id \in IdPool} \cup {Txt}

RawTexts == UNION {[1..n -> NormTokens] : n \in 0..MaxTokens}

\* the starting counters: the small ones, and 9, after which the new
\* identifiers have two digits
StartPool == (1..MaxStart) \cup {9}

InitNorm ==
    /\ pc = "call"
    /\ annotated \in RawTexts
    /\ start_number \in StartPool
    /\ input_text = <<>>
    /\ chunk_size = 0
    /\ chunks = <<>>
    /\ genre = ""
    /\ guidance = ""
    /\ idx = 0
    /\ attempt = 0
    /\ normalized = <<>>
    /\ footnote_counter = 0
    /\ annotated_chunks = <<>>
    /\ output = <<>>
    /\ error = ""
    /\ genre_calls = 0
    /\ annot_calls = <<>>
    /\ norm_log = <<>>
    /\ again = NotCalled
    /\ response = NoResponse
    /\ fatal = {}

\* normalized, footnote_counter = normalize_footnotes(text, start_number)
NormalizerReturns ==
    /\ pc = "call"
    /\ \E order \in SortedIds(annotated) :
          LET r == normalize_footnotes(annotated, start_number, order)
          IN  /\ normalized' = r.text
              /\ footnote_counter' = r.counter
    /\ pc' = "return"
    /\ UNCHANGED <<again, response, fatal,
                   input_text, chunk_size, chunks, genre, guidance, idx,
                   attempt, annotated, start_number, annotated_chunks, output,
                   error, genre_calls, annot_calls, norm_log>>

\* normalize_footnotes(normalized, start_number): the text just returned is
\* normalized again, from the same starting counter
NormalizerCalledAgain ==
    /\ pc = "return"
    /\ \E order \in SortedIds(normalized) :
          again' = normalize_footnotes(normalized, start_number, order)
    /\ pc' = "again"
    /\ UNCHANGED <<input_text, chunk_size, chunks, genre, guidance, idx,
                   attempt, annotated, start_number, normalized,
                   footnote_counter, annotated_chunks, output, error,
                   genre_calls, annot_calls, norm_log, response, fatal>>

NextNorm ==
    \/ NormalizerReturns
    \/ NormalizerCalledAgain

SpecNorm == InitNorm /\ [][NextNorm]_vars

----------------------------------------------------------------------------
(* Reading a text *)

IsMarker(t) == t.k \in {"ref", "def"}

\* the positions of the markers of a text
Markers(text) == {k \in 1..Len(text) : IsMarker(text[k])}

\* the distinct identifiers a text carries, as written
IdsOf(text) == {text[k].id : k \in Markers(text)}

\* the values of the identifiers a text carries
ValuesOf(text) == {StrToInt(id) : id \in IdsOf(text)}

\* the paragraphs of the chunks, in chunk order
RECURSIVE ParagraphsOf(_)
ParagraphsOf(cs) ==
    IF cs = <<>> THEN <<>> ELSE ReSplit(Head(cs)) \o ParagraphsOf(Tail(cs))

\* an empty document: no character, or whitespace only
IsEmptyDoc(text) == Strip(text) = <<>>

----------------------------------------------------------------------------
(* C1 *)

\* C1 (as claimed): when process_file is done, the identifiers of the output
\* are exactly 1..N for some N >= 0, with no gap, and no identifier is
\* shared by the footnotes of two chunks or by two distinct footnotes of one
\* chunk: each chunk carries as many identifiers as its raw text did, and
\* the identifiers of two chunks are disjoint.  (The claim's further clause,
\* that first occurrences increase in document order, is left out: this
\* part alone is what the code breaks.)
C1_GlobalNumbering ==
    pc = "Done" =>
        /\ ValuesOf(output[1]) = 1..Cardinality(ValuesOf(output[1]))
        /\ \A k \in 1..Len(annotated_chunks) :
              Cardinality(IdsOf(annotated_chunks[k]))
                  = norm_log[k].returned - norm_log[k].start
        /\ \A k, m \in 1..Len(annotated_chunks) :
              k # m => IdsOf(annotated_chunks[k]) \cap IdsOf(annotated_chunks[m]) = {}

----------------------------------------------------------------------------
(* C2 *)

\* the rank of an identifier among the identifiers of a text, by value
RankIn(text, id) ==
    Cardinality({o \in IdsOf(text) : StrToInt(o) <= StrToInt(id)})

\* C2 (as claimed): normalize_footnotes(text, K) on a text whose distinct
\* identifiers have the values o_1 < ... < o_D returns a text of the same
\* shape in which every marker that carried o_i carries K+i-1.
C2_RewriteIsExact ==
    (pc = "return" /\ Cardinality(ValuesOf(annotated)) = Cardinality(IdsOf(annotated))) =>
        /\ Len(normalized) = Len(annotated)
        /\ \A k \in 1..Len(annotated) :
              /\ normalized[k].k = annotated[k].k
              /\ IsMarker(annotated[k]) =>
                    normalized[k].id
                        = IntToStr(start_number + RankIn(annotated, annotated[k].id) - 1)

----------------------------------------------------------------------------
(* C3 *)

\* C3: normalize_footnotes(text, K) returns the counter K + D, D the number
\* of distinct identifiers written in the text as a reference or as a
\* definition (one role is enough), and every marker of the returned text,
\* whatever its role, carries one of the new identifiers K..K+D-1.
C3_CounterAdvancesByDistinct ==
    pc = "return" =>
        LET D == Cardinality(IdsOf(annotated))
        IN  /\ footnote_counter = start_number + D
            /\ \A k \in Markers(normalized) :
                  \E n \in start_number..(start_number + D - 1) :
                      normalized[k].id = IntToStr(n)

\* a text with an identifier that is only referenced and another that is
\* only defined has been normalized
C3_Witness ==
    /\ pc = "return"
    /\ \E a, b \in IdsOf(annotated) :
          /\ a # b
          /\ \A k \in Markers(annotated) :
                /\ annotated[k].id = a => annotated[k].k = "ref"
                /\ annotated[k].id = b => annotated[k].k = "def"
    /\ footnote_counter = start_number + 2

----------------------------------------------------------------------------
(* C4 *)

\* the calls of normalize_footnotes so far are those of chunks 1, 2, ... in
\* this order, the first starts at 1, each later one starts at the counter
\* the one before returned, and footnote_counter is the last one returned
C4_Threaded ==
    /\ \A k \in 1..Len(norm_log) :
          /\ norm_log[k].chunk = k
          /\ norm_log[k].start = (IF k = 1 THEN 1 ELSE norm_log[k-1].returned)
    /\ pc \in {"Loop", "Annotate", "Normalize", "Done"} =>
          footnote_counter =
              (IF norm_log = <<>> THEN 1 ELSE norm_log[Len(norm_log)].returned)
    /\ Len(norm_log) = Len(annotated_chunks)

\* C4: in process_file the counter starts at 1, the chunks are normalized in
\* document order, each normalization starts at the counter the one before
\* returned; the counter never decreases and is written only by the
\* initialisation to 1 and by the normalization step.
C4_CounterThreading ==
    /\ []C4_Threaded
    /\ [][/\ footnote_counter' >= footnote_counter
          /\ footnote_counter' # footnote_counter =>
                \/ pc = "Normalize"
                \/ pc = "ResolveGuidance" /\ footnote_counter' = 1]_vars

\* a run of two chunks is done, and the second chunk started past 1
C4_Witness ==
    /\ pc = "Done"
    /\ Len(norm_log) = 2
    /\ norm_log[2].start > 1
    /\ norm_log[2].returned > norm_log[2].start

----------------------------------------------------------------------------
(* C5 *)

\* C5: the paragraphs of the chunks split_into_chunks returns, in chunk
\* order, are the paragraphs of the input, in order.
C5_ChunksCoverParagraphs ==
    pc = "return" => ParagraphsOf(chunks) = ReSplit(Strip(input_text))

\* a text of three paragraphs came back as a chunk of two and a chunk of one
C5_Witness ==
    /\ pc = "return"
    /\ Len(chunks) = 2
    /\ Len(ReSplit(chunks[1])) = 2
    /\ Len(ReSplit(Strip(input_text))) = 3

----------------------------------------------------------------------------
(* C6 *)

\* C6: every chunk split_into_chunks returns has at most chunk_size words,
\* unless it is a single paragraph that has more words than that.
C6_ChunkBudget ==
    pc = "return" =>
        \A k \in 1..Len(chunks) :
            \/ WordCount(chunks[k]) <= chunk_size
            \/ Len(ReSplit(chunks[k])) = 1

\* an oversized paragraph came back as a chunk of its own, after a chunk
\* within the budget
C6_Witness ==
    /\ pc = "return"
    /\ chunk_size > 0
    /\ Len(chunks) = 2
    /\ WordCount(chunks[1]) <= chunk_size
    /\ WordCount(chunks[2]) > chunk_size

----------------------------------------------------------------------------
(* C7 *)

\* C7 (as claimed): split_into_chunks of an empty document returns zero
\* chunks.
C7_EmptyDocumentNoChunks ==
    (pc = "return" /\ IsEmptyDoc(input_text)) => Len(chunks) = 0

----------------------------------------------------------------------------
(* C8 *)

\* C8 (as claimed): process_file on an empty document never fails, calls
\* neither the genre classifier nor the annotation service, and once done
\* has written an empty output.
C8_EmptyRunCallsNothing ==
    IsEmptyDoc(input_text) =>
        /\ pc # "Failed"
        /\ genre_calls = 0
        /\ \A k \in DOMAIN annot_calls : annot_calls[k] = 0
        /\ pc = "Done" => output = << <<>> >>

----------------------------------------------------------------------------
(* C9 *)

\* the chunks whose annotation has returned
Annotated == 1..(IF pc = "Normalize" THEN idx + 1 ELSE idx)

\* C9: the annotation service is called at most max_attempts times for a
\* chunk; when an attempt returns after j failures, j < max_attempts, the
\* chunk has had exactly j+1 calls, the run has not failed, and the chunk
\* gets no further call.
C9_RetryWithinLimit ==
    /\ [](/\ \A k \in DOMAIN annot_calls : annot_calls[k] <= max_attempts
          /\ pc = "Normalize" =>
                /\ attempt < max_attempts
                /\ annot_calls[idx + 1] = attempt + 1
                /\ error = "")
    /\ [][/\ (pc = "Annotate" /\ pc' = "Normalize") => annotated' \in AnnPool
          /\ \A k \in Annotated : annot_calls'[k] = annot_calls[k]]_vars

\* an attempt returned after two failed ones
C9_Witness ==
    /\ pc = "Normalize"
    /\ attempt = 2
    /\ annot_calls[idx + 1] = 3

----------------------------------------------------------------------------
(* C10 *)

\* C10: when the attempts of a chunk are used up the run ends in Failed and
\* stays there; the chunk is not skipped (nothing is appended for it) and
\* no later chunk is annotated or normalized.
C10_ExhaustionIsFatal ==
    /\ []((pc = "Failed" /\ error # "classifier error") =>
            /\ annot_calls[idx + 1] = max_attempts
            /\ \A k \in DOMAIN annot_calls : k > idx + 1 => annot_calls[k] = 0
            /\ Len(annotated_chunks) = idx
            /\ Len(norm_log) = idx)
    /\ [][/\ (pc = "Annotate" /\ attempt = max_attempts) => pc' = "Failed"
          /\ pc = "Failed" => UNCHANGED vars]_vars

\* the first of two chunks used up its attempts
C10_Witness ==
    /\ pc = "Failed"
    /\ Len(chunks) = 2
    /\ idx = 0
    /\ annot_calls = <<max_attempts, 0>>

----------------------------------------------------------------------------
(* C11 *)

\* C11 (as claimed): a failure of the genre classifier never ends the run:
\* no run is in Failed because the classifier call raised, and a reply with
\* no parseable label leaves the run with the default guidance.
C11_ClassifierNeverFatal ==
    /\ pc = "Failed" => error # "classifier error"
    /\ (pc \in {"Loop", "Annotate", "Normalize", "Done"} /\ genre = "other") =>
          guidance = guidance_map["other"]

----------------------------------------------------------------------------
(* C12 *)

\* C12: the output is written once, by the step that ends the run in Done,
\* after every chunk has been annotated and normalized, and it is then all
\* the normalized chunks in order joined by a blank line; until then, and
\* in every run that ends in Failed, nothing has been written: the file is
\* absent, or the one that was there before the run.
C12_WriteOnceAtEnd ==
    /\ [](pc = "Done" =>
            /\ Len(annotated_chunks) = Len(chunks)
            /\ Len(norm_log) = Len(chunks)
            /\ \A k \in DOMAIN annot_calls : annot_calls[k] > 0
            /\ output = <<JoinChunks(annotated_chunks)>>)
    /\ [](pc # "Done" => output \in {<<>>, <<OldFile>>})
    /\ [][/\ output' # output => (pc = "Loop" /\ pc' = "Done")
          /\ pc \in {"Done", "Failed"} => UNCHANGED vars]_vars

\* a run of two chunks has written its output
C12_Witness ==
    /\ pc = "Done"
    /\ Len(chunks) = 2
    /\ output = <<annotated_chunks[1] \o <<Sep>> \o annotated_chunks[2]>>

\* a run of two chunks failed on the second one, the first one normalized
C12_WitnessFailed ==
    /\ pc = "Failed"
    /\ Len(annotated_chunks) = 1
    /\ output = <<>>

----------------------------------------------------------------------------
(* C13 *)

\* C13: normalize_footnotes of a text with no marker, reference or
\* definition, returns the text as it was and the counter it was given.
C13_NoMarkersIdentity ==
    (pc = "return" /\ Markers(annotated) = {}) =>
        /\ normalized = annotated
        /\ footnote_counter = start_number

\* a text that is not empty and holds no marker has been normalized, from a
\* counter past 1
C13_Witness ==
    /\ pc = "return"
    /\ Len(annotated) >= 2
    /\ Markers(annotated) = {}
    /\ start_number > 1
    /\ normalized = annotated

----------------------------------------------------------------------------
(* C14 *)

\* C14 (as claimed): normalizing again, from the same starting counter, a
\* text normalize_footnotes returned is not a no-op: the text that holds
\* markers comes back changed.
C14_RenormalizeChangesText ==
    (pc = "again" /\ Markers(normalized) # {}) => again.text # normalized

\* C14 (amended): normalizing again, from the same starting counter K, a
\* text normalize_footnotes returned renames every identifier again: the
\* D' identifiers of that text come back as exactly K..K+D'-1, each marker
\* at the rank of its identifier, and the counter as K+D'; the rename is
\* the identity, the text coming back as it was, exactly when that text
\* already carried K..K+D'-1.
C14_RenormalizeIsRename ==
    pc = "again" =>
        LET D == Cardinality(IdsOf(normalized))
        IN  /\ again.counter = start_number + D
            /\ Len(again.text) = Len(normalized)
            /\ \A k \in 1..Len(normalized) :
                  /\ again.text[k].k = normalized[k].k
                  /\ IsMarker(normalized[k]) =>
                        again.text[k].id =
                            IntToStr(start_number + RankIn(normalized, normalized[k].id) - 1)
            /\ (again.text = normalized) <=>
                  (ValuesOf(normalized) = start_number..(start_number + D - 1))

\* a text of two identifiers, normalized from a counter past 1 without a
\* collision, has been normalized again and came back as it was
C14_Witness ==
    /\ pc = "again"
    /\ start_number > 1
    /\ Cardinality(IdsOf(annotated)) = 2
    /\ Cardinality(IdsOf(normalized)) = 2
    /\ normalized # annotated
    /\ again.text = normalized
    /\ again.counter = footnote_counter

----------------------------------------------------------------------------
(* C15 *)

\* the step is a call of the annotation service that got an empty response
GotEmptyResponse ==
    /\ annot_calls' # annot_calls
    /\ response' = [got |-> TRUE, content |-> <<>>]

\* C15: a call of the annotation service that returns an empty response is
\* a failed attempt: it uses up one of the max_attempts attempts of the
\* chunk, the chunk is not left, and the empty content never becomes the
\* chunk's annotated text.
C15_EmptyResponseIsFailure ==
    /\ [](/\ pc = "Normalize" => (annotated # <<>> /\ annotated = response.content)
          /\ \A k \in 1..Len(annotated_chunks) : annotated_chunks[k] # <<>>
          /\ \A k \in DOMAIN annot_calls : annot_calls[k] <= max_attempts)
    /\ [][GotEmptyResponse =>
            /\ attempt < max_attempts
            /\ attempt' = attempt + 1
            /\ pc' = "Annotate"
            /\ idx' = idx
            /\ annotated' = annotated
            /\ annotated_chunks' = annotated_chunks]_vars

\* a chunk has had two calls, the second of them got an empty response,
\* and a third attempt is left
C15_Witness ==
    /\ pc = "Annotate"
    /\ attempt = 2
    /\ response = [got |-> TRUE, content |-> <<>>]
    /\ annot_calls[idx + 1] = 2

\* the third response of a chunk was empty too, and the run failed
C15_WitnessExhausted ==
    /\ pc = "Failed"
    /\ response = [got |-> TRUE, content |-> <<>>]
    /\ annot_calls[idx + 1] = max_attempts

----------------------------------------------------------------------------
(* C16 *)

\* C16 (as claimed): when the run fails because a chunk used up its
\* attempts, the message of the fatal error states which chunk failed and
\* after how many attempts.
C16_FatalErrorNamesChunk ==
    (pc = "Failed" /\ error = "Failed after max_attempts attempts") =>
        /\ <<"attempts", max_attempts>> \in fatal
        /\ <<"chunk", idx + 1>> \in fatal

----------------------------------------------------------------------------
(* C17 *)

\* C17: in the text normalize_footnotes returns, two markers that carried
\* the same identifier in the input, a reference and its definition among
\* them, carry the same identifier, and each marker keeps its role.
C17_ReferenceStaysWithDefinition ==
    pc # "call" =>
        /\ Len(normalized) = Len(annotated)
        /\ \A a, b \in Markers(annotated) :
              /\ normalized[a].k = annotated[a].k
              /\ annotated[a].id = annotated[b].id =>
                    normalized[a].id = normalized[b].id

\* a reference and its definition have been renamed, together
C17_Witness ==
    /\ pc = "return"
    /\ \E a, b \in Markers(annotated) :
          /\ annotated[a].k = "ref"
          /\ annotated[b].k = "def"
          /\ annotated[a].id = annotated[b].id
          /\ normalized[a].id # annotated[a].id
          /\ normalized[a].id = normalized[b].id

----------------------------------------------------------------------------
(* C18 *)

\* C18: split_into_chunks closes a chunk only when the next paragraph would
\* not fit: the words of a chunk and of the first paragraph of the chunk
\* after it are, together, more than chunk_size.
C18_GreedyFill ==
    pc = "return" =>
        \A k \in 1..(Len(chunks) - 1) :
            WordCount(chunks[k]) + WordCount(ReSplit(chunks[k + 1])[1]) > chunk_size

\* a chunk was filled with two paragraphs, to the budget, before it was
\* closed
C18_Witness ==
    /\ pc = "return"
    /\ Len(chunks) = 2
    /\ Len(ReSplit(chunks[1])) = 2
    /\ WordCount(chunks[1]) = chunk_size

----------------------------------------------------------------------------
(* C19 *)

\* the calls made to the annotation service so far
RECURSIVE SumCalls(_)
SumCalls(calls) ==
    IF calls = <<>> THEN 0 ELSE Head(calls) + SumCalls(Tail(calls))

\* C19: process_file detects the genre once, resolves the guidance, and then
\* annotates and normalizes the chunks one after the other: a step sends
\* at most one request; a request to the annotation service is for the
\* chunk after the ones already normalized, once the genre is detected and
\* the guidance resolved; a chunk is normalized after its own request has
\* returned; the classifier is called once, before any annotation request.
C19_SequentialOrder ==
    /\ [](/\ genre_calls <= 1
          /\ SumCalls(annot_calls) > 0 => genre_calls = 1
          /\ \A k \in DOMAIN annot_calls :
                annot_calls[k] > 0 => Len(norm_log) >= k - 1
          /\ \A k \in 1..Len(norm_log) : annot_calls[k] > 0)
    /\ [][/\ (genre_calls' + SumCalls(annot_calls'))
                <= (genre_calls + SumCalls(annot_calls)) + 1
          /\ genre_calls' # genre_calls =>
                (pc = "DetectGenre" /\ SumCalls(annot_calls) = 0)
          /\ annot_calls' # annot_calls /\ pc # "Init" =>
                /\ pc = "Annotate"
                /\ guidance = get_genre_guidance(genre)
                /\ Len(norm_log) = idx
                /\ annot_calls'[idx + 1] = annot_calls[idx + 1] + 1
          /\ norm_log' # norm_log =>
                (pc = "Normalize" /\ annot_calls' = annot_calls)]_vars

\* a run of two chunks is done: one call of the classifier, and the second
\* chunk was requested more than once
C19_Witness ==
    /\ pc = "Done"
    /\ Len(chunks) = 2
    /\ genre_calls = 1
    /\ annot_calls[1] >= 1
    /\ annot_calls[2] >= 2

----------------------------------------------------------------------------
(* C20 *)

\* C20: when every external call returns, a run over a document of n chunks
\* ends in Done or Failed, after at most max_attempts * n calls of the
\* annotation service and one call of the classifier.
C20_RunTerminates ==
    /\ <>(pc \in {"Done", "Failed"})
    /\ [](/\ Len(annot_calls) \in {0, Len(chunks)}
          /\ SumCalls(annot_calls) <= max_attempts * Len(chunks)
          /\ genre_calls <= 1)

\* a run of two chunks ended after max_attempts * 2 calls of the annotation
\* service: the second chunk used up its attempts
C20_Witness ==
    /\ pc = "Failed"
    /\ Len(chunks) = 2
    /\ SumCalls(annot_calls) = max_attempts * 2
    /\ genre_calls = 1

====
